---- MODULE Spec2Model ----
(***************************************************************************)
(* A model of the ACE-SQL natural-language-to-SQL service:                 *)
(*   src/app/services/query_generator.py  (class QueryGenerator)           *)
(*   src/app/routers/queries.py           (the POST /generate handler)     *)
(* Texts are TLA+ strings handled character by character, so that Python's *)
(* substring tests, str.replace and the regular expressions of the source  *)
(* are computed the way the source computes them.                          *)
(***************************************************************************)
EXTENDS Integers, Sequences, FiniteSets, TLC

VARIABLES self, req

vars == <<self, req>>

(***************************************************************************)
(* Python values.  An optional text (None or a str) is a tuple of zero or  *)
(* one strings; an object handed to a function that expects text is a      *)
(* record tagged with its Python type.                                     *)
(***************************************************************************)
None == <<>>

Some(s) == <<s>>

Str(s) == [type |-> "str", value |-> s]

NoneType == [type |-> "NoneType", value |-> ""]

Coroutine == [type |-> "coroutine", value |-> ""]

Returned(v) == [kind |-> "return", value |-> v, exc_type |-> "", message |-> ""]

Raised(t, m) == [kind |-> "raise", value |-> "", exc_type |-> t, message |-> m]

Pending == [kind |-> "pending", value |-> "", exc_type |-> "", message |-> ""]

(***************************************************************************)
(* Character classes of Python's re module (str patterns, ASCII input).    *)
(***************************************************************************)
Digits == {"0", "1", "2", "3", "4", "5", "6", "7", "8", "9"}

\* \s of re for str patterns, and the characters str.strip() and str.split()
\* take for blanks: space, \t, \n, \r, \f, the vertical tab 0x0b and the
\* separators 0x1c to 0x1f (the last five stand in the strings as themselves)
Whitespace == {" ", "\t", "\n", "\r", "\f", "", "", "", "", ""}

LowerLetters == {"a", "b", "c", "d", "e", "f", "g", "h", "i", "j", "k", "l", "m",
                 "n", "o", "p", "q", "r", "s", "t", "u", "v", "w", "x", "y", "z"}

UpperLetters == {"A", "B", "C", "D", "E", "F", "G", "H", "I", "J", "K", "L", "M",
                 "N", "O", "P", "Q", "R", "S", "T", "U", "V", "W", "X", "Y", "Z"}

WordChars == LowerLetters \cup UpperLetters \cup Digits \cup {"_"}

Char(s, i) == SubSeq(s, i, i)

LowerChar(c) ==
    CASE c = "A" -> "a" [] c = "B" -> "b" [] c = "C" -> "c" [] c = "D" -> "d"
      [] c = "E" -> "e" [] c = "F" -> "f" [] c = "G" -> "g" [] c = "H" -> "h"
      [] c = "I" -> "i" [] c = "J" -> "j" [] c = "K" -> "k" [] c = "L" -> "l"
      [] c = "M" -> "m" [] c = "N" -> "n" [] c = "O" -> "o" [] c = "P" -> "p"
      [] c = "Q" -> "q" [] c = "R" -> "r" [] c = "S" -> "s" [] c = "T" -> "t"
      [] c = "U" -> "u" [] c = "V" -> "v" [] c = "W" -> "w" [] c = "X" -> "x"
      [] c = "Y" -> "y" [] c = "Z" -> "z" [] OTHER -> c

RECURSIVE Lower(_)
\* str.lower(), computed by halves
Lower(s) ==
    IF Len(s) <= 1 THEN LowerChar(s)
    ELSE Lower(SubSeq(s, 1, Len(s) \div 2)) \o Lower(SubSeq(s, Len(s) \div 2 + 1, Len(s)))

\* s[i:].startswith(t), positions counted from 1
StartsAt(s, i, t) == i >= 1 /\ i + Len(t) - 1 <= Len(s) /\ SubSeq(s, i, i + Len(t) - 1) = t

\* the positions of s at which t occurs
Occurrences(s, t) == {i \in 1..(Len(s) - Len(t) + 1) : SubSeq(s, i, i + Len(t) - 1) = t}

\* Python's  t in s
StrIn(t, s) == Occurrences(s, t) # {}

Min(S) == CHOOSE x \in S : \A y \in S : x <= y

Max(S) == CHOOSE x \in S : \A y \in S : y <= x

\* s.find(t) from position i on, counted from 1; 0 when t does not occur
Find(s, t, i) ==
    LET at == {j \in Occurrences(s, t) : j >= i} IN IF at = {} THEN 0 ELSE Min(at)

RECURSIVE Replace(_, _, _)
\* str.replace(old, new): every non-overlapping occurrence, left to right
Replace(s, old, new) ==
    LET i == Find(s, old, 1) IN
    IF i = 0 THEN s
    ELSE SubSeq(s, 1, i - 1) \o new \o Replace(SubSeq(s, i + Len(old), Len(s)), old, new)

RECURSIVE Span(_, _, _)
\* the length of the longest run of characters of class cls that starts at s[i]
Span(s, i, cls) ==
    IF i <= Len(s) /\ Char(s, i) \in cls THEN 1 + Span(s, i + 1, cls) ELSE 0

RECURSIVE Join(_, _)
\* sep.join(parts)
Join(sep, parts) ==
    IF parts = <<>> THEN ""
    ELSE IF Len(parts) = 1 THEN parts[1]
    ELSE parts[1] \o sep \o Join(sep, Tail(parts))

\* str.strip()
Strip(s) ==
    LET keep == {i \in 1..Len(s) : Char(s, i) \notin Whitespace} IN
    IF keep = {} THEN "" ELSE SubSeq(s, Min(keep), Max(keep))

RECURSIVE Split(_)
\* str.split(): the maximal runs of non-whitespace characters
Split(s) ==
    LET t == Strip(s)
        n == Min({i \in 1..(Len(t) + 1) : i = Len(t) + 1 \/ Char(t, i) \in Whitespace})
    IN  IF t = "" THEN <<>>
        ELSE <<SubSeq(t, 1, n - 1)>> \o Split(SubSeq(t, n, Len(t)))

\* a regular-expression word boundary \b between s[i-1] and s[i]
WordBoundary(s, i) ==
    LET before == i > 1 /\ i - 1 <= Len(s) /\ Char(s, i - 1) \in WordChars
        after  == i >= 1 /\ i <= Len(s) /\ Char(s, i) \in WordChars
    IN  before # after

(***************************************************************************)
(* QueryGenerator.__init__: the instance built once at import time by      *)
(* routers/queries.py and shared by every request.  A dict is the sequence *)
(* of its items in insertion order, which is the order Python iterates it. *)
(***************************************************************************)
metrics ==
    << [name |-> "sales", field |-> "s.total_amount", agg |-> "SUM",
        description |-> "total sales amount"],
       [name |-> "revenue", field |-> "s.total_amount", agg |-> "SUM",
        description |-> "total revenue"],
       [name |-> "quantity", field |-> "s.quantity", agg |-> "SUM",
        description |-> "total units sold"],
       [name |-> "average_sale", field |-> "s.total_amount", agg |-> "AVG",
        description |-> "average sale amount"],
       [name |-> "customer_count", field |-> "c.id", agg |-> "COUNT DISTINCT",
        description |-> "number of unique customers"],
       [name |-> "order_count", field |-> "s.id", agg |-> "COUNT",
        description |-> "number of orders"] >>

aggregations ==
    << <<"total", "SUM">>, <<"average", "AVG">>, <<"count", "COUNT">>,
       <<"minimum", "MIN">>, <<"maximum", "MAX">>, <<"sum", "SUM">>,
       <<"avg", "AVG">>, <<"min", "MIN">>, <<"max", "MAX">> >>

time_patterns ==
    << <<"today", "date(s.date) = date('now')">>,
       <<"yesterday", "date(s.date) = date('now', '-1 day')">>,
       <<"this week", "strftime('%Y-%W', s.date) = strftime('%Y-%W', 'now')">>,
       <<"last week", "strftime('%Y-%W', s.date) = strftime('%Y-%W', 'now', '-7 days')">>,
       <<"this month", "strftime('%Y-%m', s.date) = strftime('%Y-%m', 'now')">>,
       <<"last month", "strftime('%Y-%m', s.date) = strftime('%Y-%m', 'now', '-1 month')">>,
       <<"this year", "strftime('%Y', s.date) = strftime('%Y', 'now')">>,
       <<"last year", "strftime('%Y', s.date) = strftime('%Y', 'now', '-1 year')">> >>

comparisons ==
    << <<"greater than", ">">>, <<"more than", ">">>, <<"higher than", ">">>,
       <<"less than", "<">>, <<"lower than", "<">>, <<"equal to", "=">>,
       <<"equals", "=">>, <<"not equal to", "!=">>, <<"at least", ">=">>,
       <<"greater than or equal to", ">=">>, <<"at most", "<=">>,
       <<"less than or equal to", "<=">> >>

\* the eight keywords in the order ascending, descending, highest, lowest,
\* most, least, increasing, decreasing
sort_patterns_by_pairs ==
    << <<"ascending", "ASC">>, <<"descending", "DESC">>,
       <<"highest", "DESC">>, <<"lowest", "ASC">>,
       <<"most", "DESC">>, <<"least", "ASC">>,
       <<"increasing", "ASC">>, <<"decreasing", "DESC">> >>

sort_patterns ==
    << <<"ascending", "ASC">>, <<"descending", "DESC">>, <<"increasing", "ASC">>,
       <<"decreasing", "DESC">>, <<"highest", "DESC">>, <<"lowest", "ASC">>,
       <<"most", "DESC">>, <<"least", "ASC">> >>

\* The instance after construction; api_key is os.getenv('OPENAI_API_KEY').
QueryGenerator(api_key) ==
    [openai_api_key |-> api_key,
     metrics        |-> metrics,
     aggregations   |-> aggregations,
     time_patterns  |-> time_patterns,
     comparisons    |-> comparisons,
     sort_patterns  |-> sort_patterns]

(***************************************************************************)
(* The Schema Validator's tables, local to _validate_query.                *)
(***************************************************************************)
unavailable_metrics ==
    << <<"profit", "We don't have profit data, but you can query sales or revenue">>,
       <<"tax", "Tax information is not available, but you can query total sales">>,
       <<"discount", "Discount data is not available, but you can query sales amounts">>,
       <<"returns", "Return data is not available, but you can query sales">>,
       <<"shipping", "Shipping data is not available">>,
       <<"cost", "Cost data is not available, but you can query sales price">> >>

unavailable_dimensions ==
    << <<"country", "Country data is not available, but you can query by region">>,
       <<"city", "City data is not available, but you can query by region">>,
       <<"state", "State data is not available, but you can query by region">>,
       <<"age", "Customer age data is not available">>,
       <<"gender", "Customer gender data is not available">> >>

alternatives ==
    << <<"profit", "revenue">>, <<"tax", "total sales">>, <<"discount", "sales">>,
       <<"returns", "sales">>, <<"shipping", "sales">>, <<"cost", "price">>,
       <<"country", "region">>, <<"city", "region">>, <<"state", "region">>,
       <<"age", "customer">>, <<"gender", "customer">> >>

\* dict.get(key, default) on a sequence of items
DictGet(items, key, default) ==
    LET at == {i \in DOMAIN items : items[i][1] = key} IN
    IF at = {} THEN default ELSE items[Min(at)][2]

\* a variant that knows no term and always answers with the default
_get_alternative_term_default(invalid_term) == "sales"

_get_alternative_term(invalid_term) == DictGet(alternatives, invalid_term, "sales")

(***************************************************************************)
(* The Intent Extractor.  Every routine receives the text and lower-cases  *)
(* it again where the source does.                                         *)
(***************************************************************************)
_extract_metric(this, query) ==
    LET hit == {i \in DOMAIN this.metrics : StrIn(this.metrics[i].name, query)} IN
    IF hit # {} THEN this.metrics[Min(hit)] ELSE this.metrics[1]

dimension_keywords ==
    << <<"region", "c.region", Some("customers c")>>,
       <<"product", "p.name", Some("products p")>>,
       <<"category", "p.category", Some("products p")>>,
       <<"customer", "c.name", Some("customers c")>>,
       <<"date", "s.date", None>> >>

RECURSIVE SelectMap_words(_, _, _)
\* a variant that keeps an item only when its key is a whole word of the text
SelectMap_words(items, text, k) ==
    IF items = <<>> THEN <<>>
    ELSE (IF \E i \in DOMAIN Split(text) : Split(text)[i] = Head(items)[1]
          THEN <<IF k = 0 THEN Head(items) ELSE Head(items)[k]>>
          ELSE <<>>) \o SelectMap_words(Tail(items), text, k)

RECURSIVE SelectMap(_, _, _)
\* [f(x) for x in items if x[1] in text], with f given as the index of the
\* component kept (0 keeps the item whole)
SelectMap(items, text, k) ==
    IF items = <<>> THEN <<>>
    ELSE (IF StrIn(Head(items)[1], text)
          THEN <<IF k = 0 THEN Head(items) ELSE Head(items)[k]>>
          ELSE <<>>) \o SelectMap(Tail(items), text, k)

_extract_dimension(query) ==
    LET found == SelectMap(dimension_keywords, query, 0) IN
    [i \in DOMAIN found |-> [field |-> found[i][2], join |-> found[i][3]]]

_extract_aggregation(this, query) ==
    LET query_lower == Lower(query)
        hit == {i \in DOMAIN this.aggregations : StrIn(this.aggregations[i][1], query_lower)}
    IN  IF hit # {} THEN this.aggregations[Min(hit)][2] ELSE "SUM"

\* \d{4}-\d{2}-\d{2} at s[i]
IsDateAt(s, i) ==
    /\ i + 9 <= Len(s)
    /\ \A k \in {0, 1, 2, 3, 5, 6, 8, 9} : Char(s, i + k) \in Digits
    /\ Char(s, i + 4) = "-" /\ Char(s, i + 7) = "-"

\* re.search(r'between\s+(\d{4}-\d{2}-\d{2})\s+and\s+(\d{4}-\d{2}-\d{2})', s):
\* the two groups of the leftmost match, or <<>> when there is none
DateRangeSearch(s) ==
    LET Ws(i) == Span(s, i, Whitespace)
        D1(j) == j + 7 + Ws(j + 7)
        A(j)  == D1(j) + 10 + Ws(D1(j) + 10)
        D2(j) == A(j) + 3 + Ws(A(j) + 3)
        ok(j) == /\ Ws(j + 7) >= 1 /\ IsDateAt(s, D1(j))
                 /\ Ws(D1(j) + 10) >= 1 /\ StartsAt(s, A(j), "and")
                 /\ Ws(A(j) + 3) >= 1 /\ IsDateAt(s, D2(j))
        at == {j \in Occurrences(s, "between") : ok(j)}
    IN  IF at = {} THEN <<>>
        ELSE <<SubSeq(s, D1(Min(at)), D1(Min(at)) + 9), SubSeq(s, D2(Min(at)), D2(Min(at)) + 9)>>

_extract_time_condition(this, query) ==
    LET query_lower == Lower(query)
        named == SelectMap(this.time_patterns, query_lower, 2)
        date_range_match == DateRangeSearch(query_lower)
        conditions ==
            named \o (IF date_range_match # <<>>
                      THEN <<"s.date BETWEEN '" \o date_range_match[1] \o "' AND '"
                             \o date_range_match[2] \o "'">>
                      ELSE <<>>)
    IN  IF conditions # <<>> THEN Join(" AND ", conditions) ELSE ""

\* the text matched by \d+(?:\.\d+)? at s[i] ("" when no digit is there)
NumberAt(s, i) ==
    LET d == Span(s, i, Digits)
        f == Span(s, i + d + 1, Digits)
    IN  IF d = 0 THEN ""
        ELSE IF i + d <= Len(s) /\ Char(s, i + d) = "." /\ f >= 1
             THEN SubSeq(s, i, i + d + f)
             ELSE SubSeq(s, i, i + d - 1)

RECURSIVE NumberMatches(_, _, _)
\* [m.group(1) for m in re.finditer(key + r'\s+(\d+(?:\.\d+)?)', s)], the
\* scan resumed at position from
NumberMatches(s, key, from) ==
    LET Num(j) == j + Len(key) + Span(s, j + Len(key), Whitespace)
        at == {j \in Occurrences(s, key) :
                 j >= from /\ Span(s, j + Len(key), Whitespace) >= 1 /\ NumberAt(s, Num(j)) # ""}
    IN  IF at = {} THEN <<>>
        ELSE LET j == Min(at)
                 value == NumberAt(s, Num(j))
             IN  <<value>> \o NumberMatches(s, key, Num(j) + Len(value))

RECURSIVE ComparisonConditions(_, _, _)
\* the loop of _extract_comparison over the items of self.comparisons
ComparisonConditions(items, query_lower, field) ==
    IF items = <<>> THEN <<>>
    ELSE LET values == NumberMatches(query_lower, Head(items)[1], 1) IN
         [i \in DOMAIN values |-> field \o " " \o Head(items)[2] \o " " \o values[i]]
         \o ComparisonConditions(Tail(items), query_lower, field)

_extract_comparison(this, query) ==
    LET query_lower == Lower(query)
        field == IF StrIn("quantity", query_lower) \/ StrIn("units", query_lower)
                 THEN "s.quantity"
                 ELSE IF StrIn("price", query_lower) THEN "p.price"
                 ELSE IF StrIn("stock", query_lower) THEN "p.stock"
                 ELSE "s.total_amount"
    IN  ComparisonConditions(this.comparisons, query_lower, field)

_extract_grouping(query) ==
    LET query_lower == Lower(query)
        Has(t) == StrIn(t, query_lower)
        customers_join == "JOIN customers c ON s.customer_id = c.id"
        products_join == "JOIN products p ON s.product_id = p.id"
        \* the explicit "by X" / "per X" phrases
        specific ==
            IF Has("by region") \/ Has("per region")
            THEN [group_by |-> Some("c.region"), joins |-> <<customers_join>>]
            ELSE IF Has("by product") \/ Has("per product") \/ Has("by item")
            THEN [group_by |-> Some("p.name"), joins |-> <<products_join>>]
            ELSE IF Has("by category") \/ Has("per category")
            THEN [group_by |-> Some("p.category"), joins |-> <<products_join>>]
            ELSE IF Has("by customer") \/ Has("per customer")
            THEN [group_by |-> Some("c.name"), joins |-> <<customers_join>>]
            ELSE IF Has("by date") \/ Has("per date")
            THEN [group_by |-> Some("date(s.date)"), joins |-> <<>>]
            ELSE IF Has("by month") \/ Has("per month")
            THEN [group_by |-> Some("strftime('%Y-%m', s.date)"), joins |-> <<>>]
            ELSE IF Has("by year") \/ Has("per year")
            THEN [group_by |-> Some("strftime('%Y', s.date)"), joins |-> <<>>]
            ELSE [group_by |-> None, joins |-> <<>>]
        \* the bare keywords, tried when no phrase matched
        inferred ==
            IF specific.group_by # None THEN specific
            ELSE IF Has("region")
            THEN [group_by |-> Some("c.region"), joins |-> <<customers_join>>]
            ELSE IF Has("product") \/ Has("item")
            THEN [group_by |-> Some("p.name"), joins |-> <<products_join>>]
            ELSE IF Has("category")
            THEN [group_by |-> Some("p.category"), joins |-> <<products_join>>]
            ELSE IF Has("customer")
            THEN [group_by |-> Some("c.name"), joins |-> <<customers_join>>]
            ELSE specific
    IN  [group_by |-> inferred.group_by, joins |-> Join(" ", inferred.joins)]

_extract_sorting(this, query) ==
    LET query_lower == Lower(query)
        hit == {i \in DOMAIN this.sort_patterns : StrIn(this.sort_patterns[i][1], query_lower)}
        direction == IF hit # {} THEN this.sort_patterns[Min(hit)][2] ELSE "DESC"
        sort_field == IF StrIn("quantity", query_lower) \/ StrIn("units", query_lower)
                      THEN "quantity"
                      ELSE IF StrIn("average", query_lower) \/ StrIn("avg", query_lower)
                      THEN "average"
                      ELSE "total"
    IN  [sort_field |-> sort_field, direction |-> direction]

\* the six patterns tried in the order they stand in the text of a question
\* such as "3 best top 50": the patterns with the number first come first
limit_patterns_number_first ==
    << <<"best", "before">>, <<"most", "before">>, <<"top", "after">>,
       <<"first", "after">>, <<"limit", "after">>, <<"show", "after">> >>

\* The six patterns of _extract_limit, in list order: the word and whether
\* the number follows it (word\s+(\d+)) or precedes it ((\d+)\s+word).
limit_patterns ==
    << <<"top", "after">>, <<"first", "after">>, <<"best", "before">>,
       <<"most", "before">>, <<"limit", "after">>, <<"show", "after">> >>

\* re.search of one limit pattern: group(1) of the leftmost match, else ""
LimitSearch(s, pattern) ==
    LET word == pattern[1]
        Ws(i) == Span(s, i, Whitespace)
        after == {j \in Occurrences(s, word) :
                    Ws(j + Len(word)) >= 1
                    /\ Span(s, j + Len(word) + Ws(j + Len(word)), Digits) >= 1}
        before == {i \in 1..Len(s) :
                     LET d == Span(s, i, Digits) IN
                     d >= 1 /\ Ws(i + d) >= 1 /\ StartsAt(s, i + d + Ws(i + d), word)}
    IN  IF pattern[2] = "after"
        THEN IF after = {} THEN ""
             ELSE LET n == Min(after) + Len(word) + Ws(Min(after) + Len(word))
                  IN  SubSeq(s, n, n + Span(s, n, Digits) - 1)
        ELSE IF before = {} THEN ""
             ELSE SubSeq(s, Min(before), Min(before) + Span(s, Min(before), Digits) - 1)

_extract_limit(query) ==
    LET query_lower == Lower(query)
        hit == {i \in DOMAIN limit_patterns : LimitSearch(query_lower, limit_patterns[i]) # ""}
    IN  IF hit # {} THEN "LIMIT " \o LimitSearch(query_lower, limit_patterns[Min(hit)])
        ELSE IF \E word \in {"top", "best", "highest", "lowest"} : StrIn(word, query_lower)
        THEN "LIMIT 5"
        ELSE ""

(***************************************************************************)
(* The Schema Validator.                                                   *)
(***************************************************************************)
RECURSIVE ReplaceAll(_, _)
\* the loop of lines 194-195: one str.replace per matched term, in order, each
\* applied to the result of the one before
ReplaceAll(text, terms) ==
    IF terms = <<>> THEN text
    ELSE ReplaceAll(Replace(text, Head(terms), _get_alternative_term(Head(terms))), Tail(terms))

EmptyDict == <<>>

_validate_query(this, query) ==
    LET query_lower == Lower(query)
        invalid_terms == SelectMap(unavailable_metrics, query_lower, 1)
                         \o SelectMap(unavailable_dimensions, query_lower, 1)
        suggestions == SelectMap(unavailable_metrics, query_lower, 2)
                       \o SelectMap(unavailable_dimensions, query_lower, 2)
        alternative_query == ReplaceAll(query_lower, invalid_terms)
    IN  IF invalid_terms # <<>>
        THEN [is_valid |-> FALSE,
              suggestion |-> "Cannot process query with " \o Join(", ", invalid_terms)
                             \o ". " \o Join(" ", suggestions)
                             \o ". Try: '" \o alternative_query \o "'",
              components |-> EmptyDict]
        ELSE [is_valid |-> TRUE,
              suggestion |-> "",
              components |->
                  [metric      |-> _extract_metric(this, query_lower),
                   dimension   |-> _extract_dimension(query_lower),
                   time_period |-> _extract_time_condition(this, query_lower),
                   filters     |-> _extract_comparison(this, query_lower),
                   grouping    |-> _extract_grouping(query_lower),
                   sorting     |-> _extract_sorting(this, query_lower),
                   limit       |-> _extract_limit(query_lower)]]

(***************************************************************************)
(* The external-AI path.  A reply of openai.ChatCompletion.acreate is a    *)
(* record: ok = FALSE when the call raises (transport failure, timeout, a  *)
(* malformed response object), else content is the message text.           *)
(***************************************************************************)
Truthy(opt) == opt # None /\ opt[1] # ""

NoNewline(s, a, b) == \A i \in a..b : Char(s, i) # "\n"

\* re.search(r'SQL:\s*(.*?)(?=Explanation:|$)', content, re.DOTALL), then
\* group(1).strip(); "" when there is no match
ParseSql(content) ==
    LET at == Occurrences(content, "SQL:") IN
    IF at = {} THEN ""
    ELSE LET a == Min(at) + 4
             stop == {b \in Occurrences(content, "Explanation:") : b >= a}
             b == IF stop = {} THEN Len(content) + 1 ELSE Min(stop)
         IN  Strip(SubSeq(content, a, b - 1))

\* re.search(r'Explanation:\s*(.*?)$', content, re.DOTALL), then strip
ParseExplanation(content) ==
    LET at == Occurrences(content, "Explanation:") IN
    IF at = {} THEN "" ELSE Strip(SubSeq(content, Min(at) + 12, Len(content)))

\* the word w stands at low[j] between two \b (low: the lower-cased text)
WordAt(low, j, w) ==
    StartsAt(low, j, w) /\ WordBoundary(low, j) /\ WordBoundary(low, j + Len(w))

\* re.search(r'\bfirst\b.*\b(second...)\b', s, re.IGNORECASE); . stops at a newline
WordThenWord(s, first, seconds) ==
    LET low == Lower(s) IN
    \E j \in Occurrences(low, first) :
        /\ WordAt(low, j, first)
        /\ \E w \in seconds : \E k \in Occurrences(low, w) :
               k >= j + Len(first) /\ WordAt(low, k, w) /\ NoNewline(low, j + Len(first), k - 1)

\* _validate_generated_sql: the message of the first pattern that fails
_validate_generated_sql(sql_query) ==
    IF ~WordThenWord(sql_query, "from", {"sales"})
    THEN Raised("ValueError", "Invalid SQL generated: Query must use the sales table")
    ELSE IF ~WordThenWord(sql_query, "join", {"products", "customers"})
    THEN Raised("ValueError", "Invalid SQL generated: Query must include proper table joins")
    ELSE IF ~\E w \in {"where", "group by", "order by"} :
                \E j \in Occurrences(Lower(sql_query), w) : WordAt(Lower(sql_query), j, w)
    THEN Raised("ValueError", "Invalid SQL generated: Query must include appropriate clauses")
    ELSE Returned("")

\* generate_sql_with_ai up to the call (lines 395-397): whether the call is made
ai_configured(this) == Truthy(this.openai_api_key)

\* a variant that trusts the reply without the structural validation
ai_result_unvalidated(reply) ==
    IF reply.ok
    THEN [sql_query |-> Some(ParseSql(reply.content)),
          explanation |-> Some(ParseExplanation(reply.content))]
    ELSE [sql_query |-> None, explanation |-> None]

\* generate_sql_with_ai from the reply on (lines 433-448)
ai_result(reply) ==
    LET sql_query == ParseSql(reply.content)
        explanation == ParseExplanation(reply.content)
    IN  IF reply.ok /\ _validate_generated_sql(sql_query).kind = "return"
        THEN [sql_query |-> Some(sql_query), explanation |-> Some(explanation)]
        ELSE [sql_query |-> None, explanation |-> None]

(***************************************************************************)
(* The rule-based pipeline, _generate_sql_rule_based.                      *)
(***************************************************************************)
\* the names bound at module level of query_generator.py
module_names ==
    {"re", "Dict", "Any", "List", "Tuple", "logging", "datetime", "timedelta",
     "openai", "os", "load_dotenv", "logger", "QueryGenerator"}

\* lines 499-514: the local variables that hold text when line 515 runs
rule_based_locals(this, natural_language_query) ==
    LET agg_func == _extract_aggregation(this, natural_language_query)
        grouping == _extract_grouping(natural_language_query)
        time_condition == _extract_time_condition(this, natural_language_query)
        filters == _extract_comparison(this, natural_language_query)
        sorting == _extract_sorting(this, natural_language_query)
        limit == _extract_limit(natural_language_query)
        where_conditions == (IF time_condition # "" THEN <<time_condition>> ELSE <<>>) \o filters
        where_clause == IF where_conditions # <<>>
                        THEN "WHERE " \o Join(" AND ", where_conditions) ELSE ""
        select_clause == IF grouping.group_by # None
                         THEN "SELECT " \o grouping.group_by[1]
                         ELSE "SELECT 'Total' as period"
    IN  << <<"agg_func", agg_func>>,
           <<"group_by", IF grouping.group_by # None THEN grouping.group_by[1] ELSE "">>,
           <<"joins", grouping.joins>>,
           <<"time_condition", time_condition>>,
           <<"sort_field", sorting.sort_field>>,
           <<"sort_direction", sorting.direction>>,
           <<"limit", limit>>,
           <<"where_clause", where_clause>>,
           <<"select_clause", select_clause>> >>

\* a name resolves when the function's locals or the module bind it
Bound(scope, name) ==
    name \in {scope[i][1] : i \in DOMAIN scope}
             \cup {"self", "natural_language_query", "is_valid", "suggestion",
                   "components", "comparisons", "where_conditions"}
             \cup module_names

\* lines 515-531: the aggregate column, the template and its whitespace clean-up
assemble(scope) ==
    LET V(name) == DictGet(scope, name, "") IN
    IF ~Bound(scope, "metric")
    THEN Raised("NameError", "name 'metric' is not defined")
    ELSE LET agg_column == V("agg_func") \o "(" \o V("metric") \o ")"
             sql_query ==
                 "\n            " \o V("select_clause") \o ","
                 \o "\n            " \o agg_column \o " as total"
                 \o "\n            FROM sales s"
                 \o "\n            " \o V("joins")
                 \o "\n            " \o V("where_clause")
                 \o "\n            " \o (IF V("group_by") # "" THEN "GROUP BY " \o V("group_by")
                                         ELSE "")
                 \o "\n            ORDER BY total " \o V("sort_direction")
                 \o "\n            " \o V("limit")
                 \o "\n        "
         IN  Returned(Join(" ", Split(sql_query)))

\* generate_sql's except clause (lines 483-485): every exception is re-raised
\* as a plain Exception whose text embeds the original message
reraise(outcome) ==
    IF outcome.kind = "raise"
    THEN Raised("Exception", "Error generating SQL query: " \o outcome.message)
    ELSE outcome

(***************************************************************************)
(* The Explanation Synthesizer, explain_query.                             *)
(***************************************************************************)
\* re.search(r'SELECT\s+(.*?)\s+FROM', sql, re.IGNORECASE): group(1).strip()
\* of the leftmost match, None when nothing matches
SelectColumns(sql) ==
    LET low == Lower(sql)
        Ws(i) == Span(sql, i, Whitespace)
        A(j) == j + 6 + Ws(j + 6)
        Ends(j) == {b \in A(j)..Len(sql) :
                      /\ Char(sql, b) \in Whitespace
                      /\ StartsAt(low, b + Ws(b), "from")
                      /\ NoNewline(sql, A(j), b - 1)}
        \* \s+ gives one blank back and the group is empty
        Blank(j) == Ws(j + 6) >= 2 /\ StartsAt(low, A(j), "from")
        at == {j \in Occurrences(low, "select") :
                 Ws(j + 6) >= 1 /\ (Ends(j) # {} \/ Blank(j))}
    IN  IF at = {} THEN None
        ELSE LET j == Min(at) IN
             IF Ends(j) # {} THEN Some(Strip(SubSeq(sql, A(j), Min(Ends(j)) - 1)))
             ELSE Some("")

\* re.search(keyword + r'\s+(.*?)(?=T1|T2|$)', sql, re.IGNORECASE):
\* group(1).strip() of the leftmost match, None when nothing matches
ClauseBody(sql, keyword, terminators) ==
    LET low == Lower(sql)
        n == Len(sql)
        A(j) == j + Len(keyword) + Span(sql, j + Len(keyword), Whitespace)
        Stop(j) == Min({b \in A(j)..(n + 1) :
                          \/ b = n + 1
                          \/ (b = n /\ Char(sql, n) = "\n")
                          \/ \E t \in terminators : StartsAt(low, b, t)})
        at == {j \in Occurrences(low, keyword) :
                 /\ Span(sql, j + Len(keyword), Whitespace) >= 1
                 /\ NoNewline(sql, A(j), Stop(j) - 1)}
    IN  IF at = {} THEN None
        ELSE Some(Strip(SubSeq(sql, A(Min(at)), Stop(Min(at)) - 1)))

\* s.split('.')[-1]
LastSegment(s) ==
    LET dots == Occurrences(s, ".") IN
    IF dots = {} THEN s
    ELSE SubSeq(s, Max(dots) + 1, Len(s))

generic_explanation == "This query retrieves data from the database."

\* explain_query(obj): obj is the tagged Python object passed as sql_query
explain_query(obj) ==
    IF obj.type # "str"
    THEN \* re.search raises TypeError; the except clause answers
         generic_explanation
    ELSE
    LET sql_query == obj.value
        select_match == SelectColumns(sql_query)
        columns == IF select_match # None THEN select_match[1] ELSE ""
        verb == IF select_match = None THEN <<>>
                ELSE IF StrIn("SUM", columns) THEN <<"This query calculates the total">>
                ELSE IF StrIn("AVG", columns) THEN <<"This query calculates the average">>
                ELSE IF StrIn("COUNT", columns) THEN <<"This query counts">>
                ELSE IF StrIn("MIN", columns) THEN <<"This query finds the minimum">>
                ELSE IF StrIn("MAX", columns) THEN <<"This query finds the maximum">>
                ELSE <<>>
        group_match == ClauseBody(sql_query, "group by", {"order by", "limit"})
        grouping == IF StrIn("GROUP BY", sql_query) /\ group_match # None
                    THEN <<"grouped by " \o LastSegment(group_match[1])>> ELSE <<>>
        where_match == ClauseBody(sql_query, "where", {"group by", "order by", "limit"})
        conditions == IF StrIn("WHERE", sql_query) /\ where_match # None
                      THEN <<"filtered by " \o where_match[1]>> ELSE <<>>
        ordering == IF StrIn("ORDER BY", sql_query)
                    THEN IF StrIn("DESC", sql_query)
                         THEN <<"sorted in descending order">>
                         ELSE <<"sorted in ascending order">>
                    ELSE <<>>
        limit_match == LimitSearch(Lower(sql_query), <<"limit", "after">>)
        limit == IF StrIn("LIMIT", sql_query) /\ limit_match # ""
                 THEN <<"showing top " \o limit_match \o " results">> ELSE <<>>
        explanation_parts == verb \o grouping \o conditions \o ordering \o limit
    IN  Join(" ", explanation_parts) \o "."

(***************************************************************************)
(* The inputs.  A question is a run of at most MaxFragments fragments of   *)
(* the vocabulary, separated by single blanks; the vocabulary holds the    *)
(* keywords the tables of the source react to, in both letter cases.       *)
(***************************************************************************)
MaxFragments == 2

Vocabulary ==
    {"Show me", "total sales", "by region", "profit", "by country", "costate",
     "average", "last month", "top 5", "more than 100", "lowest", "Quantity"}

RECURSIVE Phrases(_)
Phrases(n) ==
    IF n = 0 THEN {""}
    ELSE LET shorter == Phrases(n - 1) IN
         shorter \cup {IF p = "" THEN f ELSE p \o " " \o f : p \in shorter, f \in Vocabulary}

Questions == Phrases(MaxFragments)

\* the environment variable OPENAI_API_KEY: unset, empty or set
ApiKeys == {None, Some(""), Some("sk-test")}

by_region_sql ==
    "SELECT c.region, SUM(s.total_amount) as total FROM sales s "
    \o "JOIN customers c ON s.customer_id = c.id GROUP BY c.region ORDER BY total DESC"

\* what the external service may answer: a failure, or any text
AiReplies ==
    { [ok |-> FALSE, content |-> ""],
      [ok |-> TRUE, content |-> "I cannot help with that."],
      [ok |-> TRUE, content |-> "SQL: SELECT SUM(total_amount) FROM sales\nExplanation: The total."],
      [ok |-> TRUE, content |-> "SQL:\nSELECT p.name, SUM(s.quantity)\nFROM sales s\nJOIN products p ON s.product_id = p.id\nGROUP BY p.name\nExplanation: Units per product."],
      [ok |-> TRUE, content |-> "SQL: " \o by_region_sql \o "\nExplanation: Total sales per region."],
      [ok |-> TRUE, content |-> "Explanation: Profit margin by region.\nSQL: select c.region, sum(s.total_amount - p.price) from sales s join customers c on s.customer_id = c.id join products p on s.product_id = p.id where s.quantity > 0"] }

NoReply == [ok |-> FALSE, content |-> ""]

\* SQL texts handed to explain_query directly: a SELECT list, then optional
\* clauses, in the shape of the assembler's template and in others
SelectLists ==
    {"SELECT c.region, SUM(s.total_amount) as total FROM sales s JOIN customers c ON s.customer_id = c.id",
     "SELECT 'Total' as period, AVG(s.total_amount) as total FROM sales s",
     "SELECT name FROM products",
     "select count(*) from sales",
     ""}

WhereClauses == {"", " WHERE s.quantity > 100"}

GroupClauses == {"", " GROUP BY c.region", " group by p.name"}

OrderClauses == {"", " ORDER BY total DESC", " ORDER BY total ASC"}

LimitClauses == {"", " LIMIT 5"}

SqlTexts ==
    {sel \o wh \o gr \o ord \o lim :
        sel \in SelectLists, wh \in WhereClauses, gr \in GroupClauses,
        ord \in OrderClauses, lim \in LimitClauses}

ExplainInputs == {Str(t) : t \in SqlTexts} \cup {NoneType}

(***************************************************************************)
(* One request.  entry names the operation called from outside:            *)
(*   generate_sql    a caller that awaits QueryGenerator.generate_sql      *)
(*   generate_query  the POST /generate handler of routers/queries.py      *)
(*   explain_query   a direct call of QueryGenerator.explain_query         *)
(***************************************************************************)
NoResponse == [status_code |-> 0, detail |-> "", sql_query |-> "", explanation |-> ""]

NotValidated == [is_valid |-> FALSE, suggestion |-> "", components |-> EmptyDict]

NewRequest(entry, input) ==
    [entry       |-> entry,
     input       |-> input,
     pc          |-> entry,
     ai_calls    |-> 0,
     rule_runs   |-> 0,
     reply       |-> NoReply,
     ai          |-> [sql_query |-> None, explanation |-> None],
     validation  |-> NotValidated,
     scope       |-> <<>>,
     outcome     |-> Pending,
     sql_query   |-> NoneType,
     explanation |-> "",
     response    |-> NoResponse]

Requests ==
    {NewRequest(entry, Str(q)) : entry \in {"generate_sql", "generate_query"}, q \in Questions}
    \cup {NewRequest("explain_query", x) : x \in ExplainInputs}

Init ==
    /\ \E key \in ApiKeys : self = QueryGenerator(key)
    /\ \E first \in Requests : req = <<first>>

(***************************************************************************)
(* generate_sql (lines 464-485) and what it calls.                         *)
(***************************************************************************)
\* generate_sql_with_ai without a key: the ValueError of line 397 is caught
\* at line 446 and (None, None) comes back
AiUnavailable(r) ==
    /\ req[r].pc = "generate_sql"
    /\ ~ai_configured(self)
    /\ req' = [req EXCEPT ![r].pc = "ai_returned",
                          ![r].ai = [sql_query |-> None, explanation |-> None]]
    /\ UNCHANGED self

\* line 423: the request is sent and the coroutine is suspended
AiRequest(r) ==
    /\ req[r].pc = "generate_sql"
    /\ ai_configured(self)
    /\ req' = [req EXCEPT ![r].pc = "awaiting", ![r].ai_calls = @ + 1]
    /\ UNCHANGED self

\* generate_sql_with_ai's result for each reply of the service
ai_results == [reply \in AiReplies |-> ai_result(reply)]

\* lines 423-448: the service answers or fails, the coroutine resumes
AiReply(r) ==
    /\ req[r].pc = "awaiting"
    /\ \E reply \in AiReplies :
           req' = [req EXCEPT ![r].pc = "ai_returned",
                              ![r].reply = reply,
                              ![r].ai = ai_results[reply]]
    /\ UNCHANGED self

\* a variant that puts the question through the Schema Validator before it
\* hands back the SQL of the AI path
ReturnAiSql_validating(r) ==
    /\ req[r].pc = "ai_returned"
    /\ Truthy(req[r].ai.sql_query)
    /\ LET v == _validate_query(self, req[r].input.value) IN
       req' = [req EXCEPT
                 ![r].pc = "done",
                 ![r].validation = v,
                 ![r].outcome = IF v.is_valid
                                THEN Returned(req[r].ai.sql_query[1])
                                ELSE reraise(Raised("ValueError", v.suggestion))]
    /\ UNCHANGED self

\* lines 474-477
ReturnAiSql(r) ==
    /\ req[r].pc = "ai_returned"
    /\ Truthy(req[r].ai.sql_query)
    /\ req' = [req EXCEPT ![r].pc = "done",
                          ![r].outcome = Returned(req[r].ai.sql_query[1])]
    /\ UNCHANGED self

\* a variant that switches the AI path off on the shared instance once it
\* has failed a request
FallBack_disabling(r) ==
    /\ req[r].pc = "ai_returned"
    /\ ~Truthy(req[r].ai.sql_query)
    /\ req' = [req EXCEPT ![r].pc = "rule_based"]
    /\ self' = [self EXCEPT !.openai_api_key = None]

\* lines 479-481
FallBack(r) ==
    /\ req[r].pc = "ai_returned"
    /\ ~Truthy(req[r].ai.sql_query)
    /\ req' = [req EXCEPT ![r].pc = "rule_based"]
    /\ UNCHANGED self

\* _generate_sql_rule_based, lines 491-496, and generate_sql's except clause
RuleBasedValidate(r) ==
    /\ req[r].pc = "rule_based"
    /\ LET v == _validate_query(self, req[r].input.value) IN
       req' = [req EXCEPT
                 ![r].rule_runs = @ + 1,
                 ![r].validation = v,
                 ![r].pc = IF v.is_valid THEN "extract" ELSE "done",
                 ![r].outcome = IF v.is_valid THEN @
                                ELSE reraise(Raised("ValueError", v.suggestion))]
    /\ UNCHANGED self

\* _generate_sql_rule_based, lines 498-514
RuleBasedExtract(r) ==
    /\ req[r].pc = "extract"
    /\ req' = [req EXCEPT ![r].pc = "assemble",
                          ![r].scope = rule_based_locals(self, req[r].input.value)]
    /\ UNCHANGED self

\* _generate_sql_rule_based, lines 515-531, and generate_sql's except clause
RuleBasedAssemble(r) ==
    /\ req[r].pc = "assemble"
    /\ req' = [req EXCEPT ![r].pc = "done",
                          ![r].outcome = reraise(assemble(req[r].scope))]
    /\ UNCHANGED self

(***************************************************************************)
(* The POST /generate handler, generate_query (routers/queries.py 20-44).  *)
(***************************************************************************)
\* line 24: generate_sql is an async def and is called without await, so the
\* call builds a coroutine object and runs none of generate_sql's body
HandlerGenerate(r) ==
    /\ req[r].pc = "generate_query"
    /\ req' = [req EXCEPT ![r].pc = "handler_explain", ![r].sql_query = Coroutine]
    /\ UNCHANGED self

\* line 27
HandlerExplain(r) ==
    /\ req[r].pc = "handler_explain"
    /\ req' = [req EXCEPT ![r].pc = "handler_execute",
                          ![r].explanation = explain_query(req[r].sql_query)]
    /\ UNCHANGED self

\* str(e) of the TypeError raised when a non-str reaches the text machinery
\* of line 31; the wording depends on the interpreter version
TypeErrorTexts ==
    {"expected string or bytes-like object",
     "expected string or bytes-like object, got 'coroutine'"}

\* lines 31-44: execute the text and answer, or answer 400 with str(e)
HandlerExecute(r) ==
    /\ req[r].pc = "handler_execute"
    /\ \E db_ok \in BOOLEAN : \E type_error \in TypeErrorTexts :
         req' = [req EXCEPT
                   ![r].pc = "done",
                   ![r].response =
                       IF req[r].sql_query.type # "str"
                       THEN [NoResponse EXCEPT !.status_code = 400, !.detail = type_error]
                       ELSE IF ~db_ok
                       THEN [NoResponse EXCEPT !.status_code = 400, !.detail = "database error"]
                       ELSE [NoResponse EXCEPT !.status_code = 200,
                                               !.sql_query = req[r].sql_query.value,
                                               !.explanation = req[r].explanation]]
    /\ UNCHANGED self

(***************************************************************************)
(* A direct call of explain_query (lines 533-589).                         *)
(***************************************************************************)
Explain(r) ==
    /\ req[r].pc = "explain_query"
    /\ req' = [req EXCEPT ![r].pc = "done",
                          ![r].outcome = Returned(explain_query(req[r].input))]
    /\ UNCHANGED self

Next ==
    \/ \E r \in DOMAIN req : AiUnavailable(r)
    \/ \E r \in DOMAIN req : AiRequest(r)
    \/ \E r \in DOMAIN req : AiReply(r)
    \/ \E r \in DOMAIN req : ReturnAiSql(r)
    \/ \E r \in DOMAIN req : FallBack(r)
    \/ \E r \in DOMAIN req : RuleBasedValidate(r)
    \/ \E r \in DOMAIN req : RuleBasedExtract(r)
    \/ \E r \in DOMAIN req : RuleBasedAssemble(r)
    \/ \E r \in DOMAIN req : HandlerGenerate(r)
    \/ \E r \in DOMAIN req : HandlerExplain(r)
    \/ \E r \in DOMAIN req : HandlerExecute(r)
    \/ \E r \in DOMAIN req : Explain(r)

Spec == Init /\ [][Next]_vars

(***************************************************************************)
(* Vocabulary of the properties.                                           *)
(***************************************************************************)
UnavailableTerms ==
    {"profit", "tax", "discount", "returns", "shipping", "cost",
     "country", "city", "state", "age", "gender"}

Question(r) == req[r].input.value

\* the terms of the list that occur in the lower-cased question
MatchedTerms(q) == {t \in UnavailableTerms : StrIn(t, Lower(q))}

Unanswerable(q) == MatchedTerms(q) # {}

\* the request went through generate_sql with no AI capability and is over
RuleBasedDone(r) ==
    /\ req[r].entry = "generate_sql"
    /\ req[r].pc = "done"
    /\ ~ai_configured(self)

\* the message an awaiting caller of generate_sql sees for an exception text
Surfaced(text) == "Error generating SQL query: " \o text

\* C1: without the AI capability generate_sql fails only for unanswerable
\* questions: a question with none of the eleven unavailable terms gets SQL
\* text back, and the only failure a caller sees is the validator's suggestion.
C1_FailsOnlyWhenUnanswerable ==
    \A r \in DOMAIN req :
        RuleBasedDone(r) =>
            IF Unanswerable(Question(r))
            THEN /\ req[r].outcome.kind = "raise"
                 /\ req[r].outcome.message = Surfaced(req[r].validation.suggestion)
            ELSE /\ req[r].outcome.kind = "return"
                 /\ req[r].outcome.value # ""

KeywordsOfIntent ==
    {metrics[i].name : i \in DOMAIN metrics}
    \cup {time_patterns[i][1] : i \in DOMAIN time_patterns} \cup {"between"}
    \cup {comparisons[i][1] : i \in DOMAIN comparisons}
    \cup {"region", "product", "item", "category", "customer", "by date", "per date",
          "by month", "per month", "by year", "per year"}
    \cup {sort_patterns[i][1] : i \in DOMAIN sort_patterns}
    \cup {"top", "first", "best", "most", "limit", "highest", "lowest"}

\* a question with no metric, time, comparison, grouping, sorting or limit
\* keyword and no number
Plain(q) ==
    /\ q # ""
    /\ ~Unanswerable(q)
    /\ \A k \in KeywordsOfIntent : ~StrIn(k, Lower(q))
    /\ \A i \in 1..Len(q) : Char(q, i) \notin Digits

default_sql ==
    "SELECT 'Total' as period, SUM(s.total_amount) AS total FROM sales s ORDER BY total DESC"

\* C2: a valid question without any keyword is answered by the rule-based
\* pipeline with exactly the default SQL text: the sales metric summed, no
\* WHERE, no GROUP BY, no LIMIT.
C2_PlainQuestionGetsDefaultSql ==
    \A r \in DOMAIN req :
        (RuleBasedDone(r) /\ Plain(Question(r))) =>
            req[r].outcome = Returned(default_sql)

\* the hint the validator attaches to a term
HintOf(t) == DictGet(unavailable_metrics \o unavailable_dimensions, t, "")

\* the analog the specification names for a term
AnalogOf(t) ==
    CASE t = "profit" -> "revenue"
      [] t = "tax" -> "total sales"
      [] t \in {"discount", "returns", "shipping"} -> "sales"
      [] t = "cost" -> "price"
      [] t \in {"country", "city", "state"} -> "region"
      [] t \in {"age", "gender"} -> "customer"

EndsWith(s, t) == Len(t) <= Len(s) /\ SubSeq(s, Len(s) - Len(t) + 1, Len(s)) = t

\* the text between "Try: '" and the closing quote of a suggestion
RewrittenQuestion(suggestion) ==
    LET at == Occurrences(suggestion, "Try: '") IN
    SubSeq(suggestion, Min(at) + 6, Len(suggestion) - 1)

\* the validator has run for request r
Validated(r) == req[r].rule_runs = 1

\* what C3 says of every question but the rewriting
ValidatorVerdict(r) ==
    LET v == req[r].validation
        matched == MatchedTerms(Question(r))
    IN  /\ v.is_valid <=> matched = {}
        /\ v.is_valid => /\ v.suggestion = ""
                         /\ DOMAIN v.components =
                                {"metric", "dimension", "time_period", "filters",
                                 "grouping", "sorting", "limit"}
        /\ ~v.is_valid =>
               /\ v.components = EmptyDict
               /\ \A t \in matched : StrIn(t, v.suggestion) /\ StrIn(HintOf(t), v.suggestion)
               /\ StrIn("Try: '", v.suggestion) /\ EndsWith(v.suggestion, "'")

\* C3 as stated: validate is invalid exactly for the questions with an
\* unavailable term; the suggestion names each matched term and its hint and
\* ends with a rewritten question in which every occurrence of every matched
\* term has been replaced by its analog: no matched term is left in it and
\* the analog of each one stands in it.
C3_EveryOccurrenceReplaced ==
    \A r \in DOMAIN req :
        Validated(r) =>
            /\ ValidatorVerdict(r)
            /\ ~req[r].validation.is_valid =>
                   LET rewritten == RewrittenQuestion(req[r].validation.suggestion) IN
                   \A t \in MatchedTerms(Question(r)) :
                       ~StrIn(t, rewritten) /\ StrIn(AnalogOf(t), rewritten)

\* every unavailable term of q stands in it as a whole word, the words being
\* separated by single blanks
TermsAreWords(q) ==
    LET low == Lower(q)
        words == Split(low)
    IN  /\ low = Join(" ", words)
        /\ \A i \in DOMAIN words : \A t \in UnavailableTerms :
               StrIn(t, words[i]) => words[i] = t

\* q with each word that is an unavailable term replaced by its analog
WordwiseRewrite(q) ==
    LET words == Split(Lower(q)) IN
    Join(" ", [i \in DOMAIN words |->
                  IF words[i] \in UnavailableTerms THEN AnalogOf(words[i]) ELSE words[i]])

\* the unavailable terms in the order the validator goes through them
TermOrder ==
    <<"profit", "tax", "discount", "returns", "shipping", "cost",
      "country", "city", "state", "age", "gender">>

RECURSIVE RewriteInTurn(_, _, _)
\* text after the terms of the list that are among the matched ones have
\* been replaced one after another, each replacement putting the term's
\* analog for every occurrence of the term in the text as it then stands
RewriteInTurn(text, terms, matched) ==
    IF terms = <<>> THEN text
    ELSE RewriteInTurn(IF Head(terms) \in matched
                       THEN Replace(text, Head(terms), AnalogOf(Head(terms)))
                       ELSE text,
                       Tail(terms), matched)

\* C3, amended: the verdict, the terms and the hints as stated; for every
\* rejected question the rewritten question is the lower-cased question
\* with the matched terms replaced by their analogs one term after another,
\* in the validator's order; and when the unavailable terms occur as whole
\* words it is the question with each such word replaced by its analog, no
\* matched term being left and each analog standing in it.
C3_TermsReplacedInTurn ==
    \A r \in DOMAIN req :
        Validated(r) =>
            /\ ValidatorVerdict(r)
            /\ ~req[r].validation.is_valid =>
                   LET rewritten == RewrittenQuestion(req[r].validation.suggestion)
                       matched == MatchedTerms(Question(r))
                   IN  /\ rewritten = RewriteInTurn(Lower(Question(r)), TermOrder, matched)
                       /\ TermsAreWords(Question(r)) =>
                              /\ rewritten = WordwiseRewrite(Question(r))
                              /\ \A t \in matched :
                                     ~StrIn(t, rewritten) /\ StrIn(AnalogOf(t), rewritten)

\* a rejected question with two different terms, both whole words, rewritten
C3_Witness ==
    \E r \in DOMAIN req :
        /\ Validated(r)
        /\ ~req[r].validation.is_valid
        /\ Cardinality(MatchedTerms(Question(r))) >= 2
        /\ TermsAreWords(Question(r))
        /\ RewrittenQuestion(req[r].validation.suggestion) # Lower(Question(r))

\* C4: a question with an unavailable term is rejected loudly and once: no SQL
\* text comes out, the validator ran once, and the failure seen by the caller
\* of generate_sql, and by the client of POST /generate, carries the
\* validator's suggestion.
C4_RejectionCarriesSuggestion ==
    \A r \in DOMAIN req :
        (req[r].pc = "done" /\ Unanswerable(Question(r))) =>
            LET suggestion == _validate_query(self, Question(r)).suggestion IN
            /\ (req[r].entry = "generate_sql" /\ Validated(r)) =>
                   /\ req[r].outcome.kind = "raise"
                   /\ StrIn(suggestion, req[r].outcome.message)
            /\ req[r].entry = "generate_query" =>
                   /\ req[r].response.status_code = 400
                   /\ StrIn(suggestion, req[r].response.detail)

\* the replies of the service that are successful and whose SQL passes
\* _validate_generated_sql
AcceptedReplies ==
    {reply \in AiReplies :
        reply.ok /\ _validate_generated_sql(ParseSql(reply.content)).kind = "return"}

\* the AI path handed back SQL for request r: the capability is configured,
\* the call succeeded and the SQL in the reply passed _validate_generated_sql
AiAccepted(r) ==
    /\ ai_configured(self)
    /\ req[r].reply \in AcceptedReplies

\* the three structural demands, read as plain substrings of the text
StructuralMinimum(sql) ==
    LET low == Lower(sql) IN
    /\ StrIn("from", low) /\ StrIn("sales", low)
    /\ StrIn("join", low) /\ (StrIn("products", low) \/ StrIn("customers", low))
    /\ (StrIn("where", low) \/ StrIn("group by", low) \/ StrIn("order by", low))

AiFailureTexts == {"Invalid SQL generated", "OpenAI API key not configured"}

\* C5: within one generate_sql request the AI path is tried at most once; its
\* SQL is returned only when the call succeeded and the SQL names the sales
\* table, joins products or customers and has a WHERE, GROUP BY or ORDER BY;
\* in every other case the rule-based pipeline runs exactly once and the AI
\* failure itself never reaches the caller.
C5_AiOnceThenFallback ==
    \A r \in DOMAIN req :
        req[r].entry = "generate_sql" =>
            /\ req[r].ai_calls <= 1
            /\ req[r].rule_runs <= 1
            /\ req[r].ai_calls = 1 => ai_configured(self)
            /\ req[r].pc = "done" =>
                   /\ req[r].rule_runs = (IF AiAccepted(r) THEN 0 ELSE 1)
                   /\ req[r].rule_runs = 0 =>
                          /\ req[r].ai_calls = 1
                          /\ req[r].outcome.kind = "return"
                          /\ req[r].outcome.value # ""
                          /\ StrIn(req[r].outcome.value, req[r].reply.content)
                          /\ StructuralMinimum(req[r].outcome.value)
                   /\ req[r].outcome.kind = "raise" =>
                          /\ req[r].rule_runs = 1
                          /\ \A t \in AiFailureTexts : ~StrIn(t, req[r].outcome.message)

\* the service answered with SQL, the SQL failed the structural validation,
\* and the request ended in the rule-based pipeline
C5_Witness ==
    \E r \in DOMAIN req :
        /\ req[r].pc = "done"
        /\ req[r].ai_calls = 1
        /\ req[r].reply.ok
        /\ ParseSql(req[r].reply.content) # ""
        /\ req[r].rule_runs = 1

\* the rule-based pipeline accepted the question of request r and is over
ValidQuestionDone(r) ==
    /\ req[r].entry = "generate_sql"
    /\ req[r].pc = "done"
    /\ Validated(r)
    /\ req[r].validation.is_valid

\* C6: for a valid question the assembled SQL has a WHERE clause exactly when
\* a time condition or a comparison filter was extracted, and the clause is
\* the AND of the conditions, the time condition first, the filters after it
\* in extraction order.
C6_WhereIsTimeThenFilters ==
    \A r \in DOMAIN req :
        ValidQuestionDone(r) =>
            /\ req[r].outcome.kind = "return"
            /\ LET c == req[r].validation.components
                   conditions == (IF c.time_period # "" THEN <<c.time_period>> ELSE <<>>)
                                 \o c.filters
                   sql == req[r].outcome.value \o " "
               IN  /\ StrIn(" WHERE ", sql) <=> conditions # <<>>
                   /\ conditions # <<>> =>
                          StrIn(" WHERE " \o Join(" AND ", conditions) \o " ", sql)

\* C7: the explanation of the assembled SQL says "grouped by region" when the
\* intent groups by c.region, and says nothing of grouping when the intent has
\* no group-by field, the SQL then selecting 'Total' as period with no GROUP BY.
C7_ExplainFollowsGrouping ==
    \A r \in DOMAIN req :
        ValidQuestionDone(r) =>
            /\ req[r].outcome.kind = "return"
            /\ LET group_by == req[r].validation.components.grouping.group_by
                   sql == req[r].outcome.value
                   explanation == explain_query(Str(sql))
               IN  /\ group_by = Some("c.region") => StrIn("grouped by region", explanation)
                   /\ group_by = None =>
                          /\ ~StrIn("grouped by", explanation)
                          /\ StrIn("SELECT 'Total' as period", sql)
                          /\ ~StrIn("GROUP BY", sql)

\* the text has no aggregate function and no WHERE, GROUP BY, ORDER BY, LIMIT
NothingToExtract(text) ==
    \A k \in {"SUM", "AVG", "COUNT", "MIN", "MAX", "GROUP BY", "WHERE", "ORDER BY", "LIMIT"} :
        ~StrIn(k, text)

\* C8: explain_query never raises, and when it extracts nothing from the SQL
\* text it returns exactly the generic sentence.
C8_GenericWhenNothingExtracted ==
    \A r \in DOMAIN req :
        (req[r].entry = "explain_query" /\ req[r].pc = "done") =>
            /\ req[r].outcome.kind = "return"
            /\ (req[r].input.type = "str" /\ NothingToExtract(req[r].input.value)) =>
                   req[r].outcome.value = generic_explanation

\* C10: for a valid question the POST /generate handler holds the SQL text
\* of generate_sql, explains and executes that text, and answers with it and
\* its explanation, not with an error.
C10_HandlerAnswersWithSql ==
    \A r \in DOMAIN req :
        (req[r].entry = "generate_query" /\ req[r].pc = "done"
         /\ ~Unanswerable(Question(r))) =>
            /\ req[r].sql_query.type = "str"
            /\ req[r].response.status_code = 200
            /\ req[r].response.sql_query = req[r].sql_query.value
            /\ req[r].response.explanation = explain_query(req[r].sql_query)

\* ---------------------------------------------------------------------
\* Concurrent requests against the one module-level QueryGenerator
\* (routers/queries.py line 10): NumRequests requests are in flight at once
\* and their steps interleave freely.

NumRequests == 2

ConcRequests ==
    { NewRequest("generate_sql", Str("sales by region")),
      NewRequest("generate_query", Str("sales by region")),
      NewRequest("explain_query", Str(by_region_sql)) }

InitConc ==
    /\ \E key \in ApiKeys : self = QueryGenerator(key)
    /\ req \in [1..NumRequests -> ConcRequests]

SpecConc == InitConc /\ [][Next]_vars

\* what a generate_sql request yields on its own, from the instance, the
\* question and the reply of the AI service alone
generate_sql_alone(this, question, reply) ==
    LET ai == ai_results[reply] IN
    IF ai_configured(this) /\ Truthy(ai.sql_query)
    THEN Returned(ai.sql_query[1])
    ELSE LET validation == _validate_query(this, question) IN
         IF ~validation.is_valid
         THEN reraise(Raised("ValueError", validation.suggestion))
         ELSE reraise(assemble(rule_based_locals(this, question)))

\* the results held by request record q are those of the same request run
\* alone against the instance
AsRunAlone(this, q) ==
    CASE q.entry = "generate_sql" ->
             q.outcome = generate_sql_alone(this, q.input.value, q.reply)
      [] q.entry = "explain_query" ->
             q.outcome = Returned(explain_query(q.input))
      [] q.entry = "generate_query" ->
             /\ q.sql_query = Coroutine
             /\ q.explanation = explain_query(Coroutine)

\* two requests with the same request text and the same reply of the service
SameInput(a, b) ==
    /\ req[a].entry = req[b].entry
    /\ req[a].input = req[b].input
    /\ req[a].reply = req[b].reply

\* C9: no step of any request changes the shared QueryGenerator instance; a
\* request that finishes, whatever the other requests did in between, has the
\* results it has when run alone, and keeps them; and two finished requests on
\* the same input have the same SQL text and explanation.
C9_RequestsAreIndependent ==
    /\ [][/\ self' = self
          /\ \A r \in DOMAIN req :
                 /\ req[r].pc = "done" => req'[r] = req[r]
                 /\ (req[r].pc # "done" /\ req'[r].pc = "done") =>
                        AsRunAlone(self', req'[r])]_vars
    /\ [](\A a, b \in DOMAIN req :
            (req[a].pc = "done" /\ req[b].pc = "done" /\ SameInput(a, b)) =>
                /\ req[a].outcome = req[b].outcome
                /\ req[a].sql_query = req[b].sql_query
                /\ req[a].explanation = req[b].explanation)

\* two requests on the same question were both served by the service and
\* both went through the rule-based pipeline to the end
C9_Witness ==
    \E a, b \in DOMAIN req :
        /\ a # b
        /\ req[a].pc = "done" /\ req[b].pc = "done"
        /\ req[a].entry = "generate_sql"
        /\ SameInput(a, b)
        /\ req[a].ai_calls = 1 /\ req[b].ai_calls = 1
        /\ req[a].rule_runs = 1 /\ req[b].rule_runs = 1

\* ---------------------------------------------------------------------
\* The rule-based pipeline over questions that exercise the extractors: the
\* AI capability is not configured, so every generate_sql request goes
\* through validation, extraction and assembly.  The other entries of the
\* service are present on their reference requests.

MaxTerms == 2

ExtractVocabulary ==
    {"Show me", "quantity", "avg", "average", "decreasing", "lowest",
     "greater than or equal to 5", "not equal to 5", "more than 100", "price",
     "per item", "region", "per month", "top 5", "top 50", "3 best"}

RECURSIVE ExtractPhrases(_)
ExtractPhrases(n) ==
    IF n = 0 THEN {""}
    ELSE LET shorter == ExtractPhrases(n - 1) IN
         shorter \cup {IF p = "" THEN w ELSE p \o " " \o w :
                           p \in shorter, w \in ExtractVocabulary}

ExtractQuestions == ExtractPhrases(MaxTerms)

InitExtract ==
    \/ /\ self = QueryGenerator(None)
       /\ \E q \in ExtractQuestions : req = <<NewRequest("generate_sql", Str(q))>>
    \/ /\ \E key \in ApiKeys : self = QueryGenerator(key)
       /\ \E first \in ConcRequests : req = <<first>>

SpecExtract == InitExtract /\ [][Next]_vars

\* the metric names in the order the specification gives them
MetricOrder ==
    <<"sales", "revenue", "quantity", "average_sale", "customer_count", "order_count">>

\* the first metric of MetricOrder named in the lower-cased question, sales
\* when none is
MetricOf(q) ==
    LET named == {i \in DOMAIN MetricOrder : StrIn(MetricOrder[i], Lower(q))}
        name == IF named = {} THEN "sales" ELSE MetricOrder[Min(named)]
    IN  CHOOSE m \in {metrics[i] : i \in DOMAIN metrics} : m.name = name

\* C11: for a valid question the assembled SQL has the aggregate column
\* AGG(field), with the field and the aggregation function of the metric the
\* metric extractor selects: the first of sales, revenue, quantity,
\* average_sale, customer_count, order_count in the lower-cased question,
\* sales when none occurs.
C11_AggregateOfMetric ==
    \A r \in DOMAIN req :
        ValidQuestionDone(r) =>
            LET m == MetricOf(Question(r)) IN
            /\ req[r].validation.components.metric = m
            /\ req[r].outcome.kind = "return"
            /\ StrIn(", " \o m.agg \o "(" \o m.field \o ") as total FROM sales s",
                     req[r].outcome.value)

\* the keywords that sort in ascending order; the other four sort descending
AscendingKeywords == {"ascending", "lowest", "least", "increasing"}

\* the direction of the first keyword of the priority order that occurs in
\* the lower-cased question, DESC when none occurs
DirectionBy(priority, q) ==
    LET found == {i \in DOMAIN priority : StrIn(priority[i], Lower(q))} IN
    IF found = {} THEN "DESC"
    ELSE IF priority[Min(found)] \in AscendingKeywords THEN "ASC" ELSE "DESC"

\* the direction the validator's intent and the pipeline's locals hold for
\* request r is d
SortDirectionIs(r, d) ==
    /\ req[r].validation.components.sorting.direction = d
    /\ req[r].pc \in {"assemble", "done"} =>
           DictGet(req[r].scope, "sort_direction", "") = d

\* the pipeline accepted the question of request r
Accepted(r) ==
    /\ req[r].entry = "generate_sql"
    /\ Validated(r)
    /\ req[r].validation.is_valid

\* C12 as stated: the direction is that of the first keyword, in the order
\* ascending, descending, highest, lowest, most, least, increasing,
\* decreasing, found in the lower-cased question, DESC when none is found.
C12_DirectionByListedOrder ==
    \A r \in DOMAIN req :
        Accepted(r) =>
            SortDirectionIs(r, DirectionBy(
                <<"ascending", "descending", "highest", "lowest",
                  "most", "least", "increasing", "decreasing">>, Question(r)))

\* C12, amended: the direction is that of the first keyword, in the order
\* ascending, descending, increasing, decreasing, highest, lowest, most,
\* least, found in the lower-cased question, DESC when none is found.
C12_DirectionByTableOrder ==
    \A r \in DOMAIN req :
        Accepted(r) =>
            SortDirectionIs(r, DirectionBy(
                <<"ascending", "descending", "increasing", "decreasing",
                  "highest", "lowest", "most", "least">>, Question(r)))

\* a question with two keywords of opposite directions went through the
\* pipeline and sorts by the one that is first in the table
C12_Witness ==
    \E r \in DOMAIN req :
        /\ Accepted(r)
        /\ req[r].pc = "done"
        /\ StrIn("lowest", Lower(Question(r)))
        /\ StrIn("decreasing", Lower(Question(r)))
        /\ SortDirectionIs(r, "DESC")

\* the twelve comparison phrases and their operators
ComparisonPhrases ==
    [p \in {"greater than", "more than", "higher than"} |-> ">"]
    @@ [p \in {"less than", "lower than"} |-> "<"]
    @@ [p \in {"equal to", "equals"} |-> "="]
    @@ [p \in {"not equal to"} |-> "!="]
    @@ [p \in {"at least", "greater than or equal to"} |-> ">="]
    @@ [p \in {"at most", "less than or equal to"} |-> "<="]

\* the comparison phrases that stand in s right before the number at n, with
\* blanks between
PhrasesBefore(s, n) ==
    {p \in DOMAIN ComparisonPhrases :
        \E j \in Occurrences(s, p) :
            /\ Span(s, j + Len(p), Whitespace) >= 1
            /\ j + Len(p) + Span(s, j + Len(p), Whitespace) = n}

\* the places of s where a number follows a comparison phrase
ComparedNumbers(s) ==
    {n \in 1..Len(s) : NumberAt(s, n) # "" /\ PhrasesBefore(s, n) # {}}

\* the field a filter is on
FilterField(s) ==
    IF StrIn("quantity", s) \/ StrIn("units", s) THEN "s.quantity"
    ELSE IF StrIn("price", s) THEN "p.price"
    ELSE IF StrIn("stock", s) THEN "p.stock"
    ELSE "s.total_amount"

\* the phrase that reads up to the number at n, the longest one standing there
PhraseAt(s, n) ==
    CHOOSE p \in PhrasesBefore(s, n) : \A o \in PhrasesBefore(s, n) : Len(o) <= Len(p)

\* C13: the comparison extractor yields one filter per comparison phrase
\* followed by a number; a question with a single phrase and a single
\* number yields exactly the filter "field operator number", with the
\* operator of that phrase and the field chosen by quantity/units, else
\* price, else stock, else s.total_amount.
C13_OneFilterPerComparison ==
    \A r \in DOMAIN req :
        Accepted(r) =>
            LET s == Lower(Question(r))
                numbers == ComparedNumbers(s)
                filters == req[r].validation.components.filters
            IN  /\ Len(filters) = Cardinality(numbers)
                /\ \A n \in numbers :
                       numbers = {n} =>
                           filters = <<FilterField(s) \o " "
                                       \o ComparisonPhrases[PhraseAt(s, n)] \o " "
                                       \o NumberAt(s, n)>>

\* the grouping categories in priority order: the words naming the category
\* and the field it groups by
GroupingCategories ==
    << <<{"region"}, "c.region">>, <<{"product", "item"}, "p.name">>,
       <<{"category"}, "p.category">>, <<{"customer"}, "c.name">>,
       <<{"date"}, "date(s.date)">>, <<{"month"}, "strftime('%Y-%m', s.date)">>,
       <<{"year"}, "strftime('%Y', s.date)">> >>

\* the first category with an explicit "by X" or "per X" phrase in s
ExplicitGrouping(s) ==
    {i \in DOMAIN GroupingCategories :
        \E x \in GroupingCategories[i][1] : StrIn("by " \o x, s) \/ StrIn("per " \o x, s)}

\* the first of the four table-backed categories with its bare keyword in s
BareGrouping(s) ==
    {i \in 1..4 : \E x \in GroupingCategories[i][1] : StrIn(x, s)}

\* the grouping field of s: an explicit phrase before any bare keyword
GroupingOf(s) ==
    IF ExplicitGrouping(s) # {} THEN Some(GroupingCategories[Min(ExplicitGrouping(s))][2])
    ELSE IF BareGrouping(s) # {} THEN Some(GroupingCategories[Min(BareGrouping(s))][2])
    ELSE None

\* the join that brings the table of a grouping field into scope
JoinOf(group_by) ==
    IF group_by \in {Some("c.region"), Some("c.name")}
    THEN "JOIN customers c ON s.customer_id = c.id"
    ELSE IF group_by \in {Some("p.name"), Some("p.category")}
    THEN "JOIN products p ON s.product_id = p.id"
    ELSE ""

\* C14: the grouping extractor selects at most one field and at most one
\* join: the field of the first explicit "by X"/"per X" phrase (region,
\* product/item, category, customer, date, month, year), or with no such
\* phrase that of the first bare keyword (region, product/item, category,
\* customer), or none; the join is the customers join for c.region and
\* c.name, the products join for p.name and p.category, and empty otherwise.
C14_ExplicitPhraseWins ==
    \A r \in DOMAIN req :
        Accepted(r) =>
            LET grouping == req[r].validation.components.grouping
                expected == GroupingOf(Lower(Question(r)))
            IN  /\ grouping.group_by = expected
                /\ grouping.joins = JoinOf(expected)

\* the six numeric patterns in the order top N, first N, N best, N most,
\* limit N, show N
LimitOrder ==
    << <<"top", "after">>, <<"first", "after">>, <<"best", "before">>,
       <<"most", "before">>, <<"limit", "after">>, <<"show", "after">> >>

\* the limit clause of s: the number of the first pattern of LimitOrder that
\* matches, else 5 for a bare keyword, else no clause
LimitOf(s) ==
    LET matching == {i \in DOMAIN LimitOrder : LimitSearch(s, LimitOrder[i]) # ""} IN
    IF matching # {} THEN "LIMIT " \o LimitSearch(s, LimitOrder[Min(matching)])
    ELSE IF StrIn("top", s) \/ StrIn("best", s) \/ StrIn("highest", s) \/ StrIn("lowest", s)
    THEN "LIMIT 5"
    ELSE ""

\* the limit clause held for request r
LimitIs(r, clause) ==
    /\ req[r].validation.components.limit = clause
    /\ req[r].pc \in {"assemble", "done"} => DictGet(req[r].scope, "limit", "") = clause

\* C15 as stated: the limit is LIMIT N for the first of the six patterns, in
\* their fixed order, that matches anywhere; LIMIT 5 for a bare top, best,
\* highest or lowest; no clause otherwise; and every question containing
\* "top 5" yields LIMIT 5.
C15_Top5AlwaysLimit5 ==
    \A r \in DOMAIN req :
        Accepted(r) =>
            LET s == Lower(Question(r)) IN
            /\ LimitIs(r, LimitOf(s))
            /\ StrIn("top 5", s) => LimitIs(r, "LIMIT 5")

\* the leftmost "top" of s begins "top 5" and no digit follows the 5
LeadingTop5(s) ==
    /\ StrIn("top 5", s)
    /\ Min(Occurrences(s, "top 5")) = Min(Occurrences(s, "top"))
    /\ LET after == Min(Occurrences(s, "top 5")) + 5 IN
       after > Len(s) \/ Char(s, after) \notin Digits

\* C15, amended: the limit is LIMIT N for the first of the six patterns, in
\* their fixed order, that matches, N being the whole number of that
\* pattern's leftmost match; LIMIT 5 for a bare keyword; no clause otherwise;
\* and a question whose leftmost "top" begins "top 5" with no further digit
\* yields LIMIT 5.
C15_LimitByPatternOrder ==
    \A r \in DOMAIN req :
        Accepted(r) =>
            LET s == Lower(Question(r)) IN
            /\ LimitIs(r, LimitOf(s))
            /\ LeadingTop5(s) => LimitIs(r, "LIMIT 5")

\* a question in which "N best" stands before "top N" went through the
\* pipeline and took its limit from "top N"
C15_Witness ==
    \E r \in DOMAIN req :
        /\ Accepted(r)
        /\ req[r].pc = "done"
        /\ Question(r) = "3 best top 5"
        /\ LimitIs(r, "LIMIT 5")

\* the columns of the two joined tables
ProductColumns == {"p.name", "p.category", "p.price", "p.stock"}

CustomerColumns == {"c.region", "c.name"}

\* the SELECT list, WHERE clause and GROUP BY field the assembler fills its
\* template with for request r
AssembledClauses(r) ==
    {DictGet(req[r].scope, name, "") : name \in {"select_clause", "where_clause", "group_by"}}

\* C16: in the SQL the rule-based pipeline assembles, a column of alias p
\* stands in the SELECT list, the WHERE clause or the GROUP BY clause only
\* with the JOIN on products, and a column of alias c only with the JOIN on
\* customers.
C16_AliasesInScope ==
    \A r \in DOMAIN req :
        (Accepted(r) /\ req[r].pc \in {"assemble", "done"}) =>
            LET joins == DictGet(req[r].scope, "joins", "") IN
            /\ (\E col \in ProductColumns : \E clause \in AssembledClauses(r) :
                    StrIn(col, clause)) => StrIn("JOIN products p ", joins)
            /\ (\E col \in CustomerColumns : \E clause \in AssembledClauses(r) :
                    StrIn(col, clause)) => StrIn("JOIN customers c ", joins)

\* request r ended rejected as unanswerable: the validator's suggestion was
\* raised to the caller
RejectedAsUnanswerable(r) ==
    /\ req[r].pc = "done"
    /\ req[r].validation # NotValidated
    /\ ~req[r].validation.is_valid
    /\ req[r].outcome.kind = "raise"
    /\ req[r].outcome.message = Surfaced(req[r].validation.suggestion)

\* C17: the Schema Validator runs only on the fallback path: a generate_sql
\* request whose AI SQL passed the structural validation never invokes
\* validate and returns that SQL, whatever the question; a question is
\* rejected as unanswerable only in requests where the AI path failed or is
\* not configured.
C17_ValidatorOnlyOnFallback ==
    \A r \in DOMAIN req :
        req[r].entry = "generate_sql" =>
            /\ AiAccepted(r) =>
                   /\ req[r].validation = NotValidated
                   /\ req[r].rule_runs = 0
                   /\ req[r].pc = "done" =>
                          req[r].outcome = Returned(ParseSql(req[r].reply.content))
            /\ req[r].validation # NotValidated =>
                   /\ req[r].pc \notin {"generate_sql", "awaiting", "ai_returned"}
                   /\ ~ai_configured(self) \/ req[r].ai_calls = 1
            /\ RejectedAsUnanswerable(r) =>
                   \/ ~ai_configured(self)
                   \/ ~req[r].reply.ok
                   \/ ~StructuralMinimum(ParseSql(req[r].reply.content))
                   \/ _validate_generated_sql(ParseSql(req[r].reply.content)).kind = "raise"

\* a question with an unavailable term was answered with the SQL of the AI
\* path, the validator never having seen it
C17_Witness ==
    \E r \in DOMAIN req :
        /\ req[r].entry = "generate_sql"
        /\ req[r].pc = "done"
        /\ Unanswerable(Question(r))
        /\ AiAccepted(r)
        /\ req[r].validation = NotValidated
        /\ req[r].outcome.kind = "return"

\* C18: unavailable terms are matched as substrings, so no question the
\* validator accepts contains "age", and none contains "average": every
\* question with "average" is rejected as unanswerable, and in the runs that
\* reach extraction and assembly the AVG aggregation and the "average" sort
\* field are selected only through the keyword "avg".
C18_AverageNeverAccepted ==
    \A r \in DOMAIN req :
        (req[r].entry = "generate_sql" /\ Validated(r)) =>
            LET s == Lower(Question(r)) IN
            /\ req[r].validation.is_valid => ~StrIn("age", s) /\ ~StrIn("average", s)
            /\ StrIn("average", s) =>
                   /\ ~req[r].validation.is_valid
                   /\ StrIn("age", req[r].validation.suggestion)
                   /\ req[r].pc = "done"
                   /\ RejectedAsUnanswerable(r)
            /\ req[r].validation.is_valid =>
                   (req[r].validation.components.sorting.sort_field = "average"
                        => StrIn("avg", s))
            /\ req[r].pc \in {"assemble", "done"} /\ req[r].validation.is_valid =>
                   /\ DictGet(req[r].scope, "agg_func", "") = "AVG" => StrIn("avg", s)
                   /\ DictGet(req[r].scope, "sort_field", "") = "average" => StrIn("avg", s)

\* a run reached assembly with the AVG aggregation and the "average" sort
\* field, selected through "avg"
C18_Witness ==
    \E r \in DOMAIN req :
        /\ Accepted(r)
        /\ req[r].pc = "done"
        /\ StrIn("avg", Lower(Question(r)))
        /\ DictGet(req[r].scope, "agg_func", "") = "AVG"
        /\ DictGet(req[r].scope, "sort_field", "") = "average"

====
